---- MODULE Spec2Model ----
(***************************************************************************)
(* kuduq-consumer: the four payment HTTP operations of app.py over the     *)
(* RapydMoney REST client of chalicelib/rapydmoney.py, and the SQS batch   *)
(* consumer handle_my_queue over chalicelib/parsemessage.py.               *)
(*                                                                         *)
(* Money: a Decimal balance is held in integer cents; a Python float that  *)
(* results from amount_cents / 100.0 is held as the pair (cents, err),     *)
(* err being the sign of the binary64 rounding error fl(c/100) - c/100.    *)
(***************************************************************************)
EXTENDS Integers, Sequences, FiniteSets, TLC

\* ------------------------------------------------------------------ bounds
MaxTokens == 2
MaxBatch == 3

\* --------------------------------------------------------- program constants
MantissaBits == 53
BatchSize == 10

\* ------------------------------------------------------------ input domains
StudentIds == {"S1"}
MerchantIds == {"M1"}
SponsorIds == {"P1"}
AmountCentsValues == {-100, 0, 7, 5000}
IdempotencyKeys == {"k1", "k2"}
ErrorStatusCodes == {404, 500}
OkStatusCodes == {200}

\* ------------------------------------------------------------ request body
\* app.current_request.json_body: a dict; a key that is absent is absent
\* from the DOMAIN.
Has(b, k) == k \in DOMAIN b

\* a handler that only asks whether the key is there
TruthyPresentOnly(b, k) == Has(b, k)

\* Python truthiness of json_body.get(k) for a string-valued key
Truthy(b, k) == Has(b, k) /\ b[k] # ""

Optional(k, vals) == {<<>>} \cup {k :> v : v \in vals}

CanPayBodies ==
    {a @@ b : a \in Optional("studentId", StudentIds \cup {""}),
              b \in Optional("amount_cents", AmountCentsValues)}

PayUserBodies ==
    {a @@ b @@ c @@ d :
        a \in Optional("merchantId", MerchantIds \cup {""}),
        b \in Optional("studentId", StudentIds \cup {""}),
        c \in Optional("idempotency_key", IdempotencyKeys),
        d \in Optional("amount_cents", AmountCentsValues)}

SponsorUserBodies ==
    {a @@ b @@ c @@ d :
        a \in Optional("sponsorId", SponsorIds \cup {""}),
        b \in Optional("studentId", StudentIds \cup {""}),
        c \in Optional("idempotency_key", IdempotencyKeys),
        d \in Optional("amount_cents", AmountCentsValues)}

FundUserBodies ==
    {a @@ b : a \in Optional("sponsorId", SponsorIds \cup {""}),
              b \in Optional("amount_cents", AmountCentsValues)}

\* ------------------------------------------------- amount_cents / 100.0
RECURSIVE BitLength(_)
BitLength(n) == IF n = 0 THEN 0 ELSE 1 + BitLength(n \div 2)

\* Long division of r/100 in binary: r is the remainder left after the bits
\* produced so far, have the number of significant bits produced, last the
\* last bit produced.  After MantissaBits significant bits the rest decides
\* the rounding (round-half-to-even): 1 rounded up, -1 rounded down, 0 exact.
RECURSIVE RoundBits(_, _, _)
RoundBits(r, have, last) ==
    IF r = 0 THEN 0
    ELSE IF have = MantissaBits
         THEN IF 2 * r > 100 THEN 1
              ELSE IF 2 * r < 100 THEN -1
              ELSE IF last = 1 THEN 1 ELSE -1
         ELSE LET bit == (2 * r) \div 100
                  rest == (2 * r) % 100
              IN  IF have = 0 /\ bit = 0
                  THEN RoundBits(rest, 0, 0)
                  ELSE RoundBits(rest, have + 1, bit)

RoundingError(c) ==
    IF c = 0 THEN 0
    ELSE IF c > 0
         THEN RoundBits(c % 100, BitLength(c \div 100), (c \div 100) % 2)
         ELSE 0 - RoundBits((0 - c) % 100, BitLength((0 - c) \div 100),
                            ((0 - c) \div 100) % 2)

\* amount = amount_cents / 100.0
Div100(c) == [cents |-> c, err |-> RoundingError(c)]

ZeroAmount == [cents |-> 0, err |-> 0]

\* Decimal < float, an exact comparison in Python
DecimalLtFloat(d, f) == d < f.cents \/ (d = f.cents /\ f.err > 0)

\* ------------------------------------------------------------- the provider
\* What requests.request meets on the wire: a transport failure, or a status
\* code with a decoded body.
\* none is the element of DataSet that stands for "no body".
Wire(DataSet, none) ==
    {[neterr |-> TRUE, status |-> 0, data |-> none]}
    \cup {[neterr |-> FALSE, status |-> s, data |-> none] : s \in ErrorStatusCodes}
    \cup {[neterr |-> FALSE, status |-> s, data |-> d] : s \in OkStatusCodes, d \in DataSet}

\* a client that reports a transport failure as it reports a status
RequestUnclassified(w) ==
    IF w.neterr \/ ~(200 <= w.status /\ w.status < 300)
    THEN [raised |-> TRUE, error |-> "RapydMoneyAPIError", status_code |-> w.status,
          message |-> "API Error", sent |-> 1, data |-> w.data]
    ELSE [raised |-> FALSE, error |-> "", status_code |-> w.status,
          message |-> "", sent |-> 1, data |-> w.data]

\* RapydMoneyService._request: one requests.request call.  It raises
\* RapydMoneyAPIError(status_code=-1, message="Network error") on a transport
\* failure and RapydMoneyAPIError(status_code=resp.status_code) on a non-2xx
\* status, and returns the body else.  sent counts the HTTP requests issued.
Request(w) ==
    IF w.neterr
    THEN [raised |-> TRUE, error |-> "RapydMoneyAPIError", status_code |-> -1,
          message |-> "Network error", sent |-> 1, data |-> w.data]
    ELSE IF ~(200 <= w.status /\ w.status < 300)
         THEN [raised |-> TRUE, error |-> "RapydMoneyAPIError", status_code |-> w.status,
               message |-> "API Error", sent |-> 1, data |-> w.data]
         ELSE [raised |-> FALSE, error |-> "", status_code |-> w.status,
               message |-> "", sent |-> 1, data |-> w.data]

\* --------------------------------------------------------------- text values
\* A provider text (a message field, a text body) is a sequence of characters.
UpperCase == <<"A","B","C","D","E","F","G","H","I","J","K","L","M",
               "N","O","P","Q","R","S","T","U","V","W","X","Y","Z">>
LowerCase == <<"a","b","c","d","e","f","g","h","i","j","k","l","m",
               "n","o","p","q","r","s","t","u","v","w","x","y","z">>

\* str.lower()
Lower(s) ==
    [i \in 1..Len(s) |->
        IF \E j \in 1..Len(UpperCase) : UpperCase[j] = s[i]
        THEN LowerCase[CHOOSE j \in 1..Len(UpperCase) : UpperCase[j] = s[i]]
        ELSE s[i]]

\* needle in hay, for two str
Contains(hay, needle) ==
    \E i \in 1..(Len(hay) - Len(needle) + 1) :
        SubSeq(hay, i, i + Len(needle) - 1) = needle

StrSuccessful == <<"s","u","c","c","e","s","s","f","u","l">>
StrMessage == <<"m","e","s","s","a","g","e">>

TxtTransferSuccessful == <<"T","r","a","n","s","f","e","r"," ">> \o StrSuccessful
TxtUpperSuccessful == <<"S","U","C","C","E","S","S","F","U","L","L","Y">>
TxtTransferFailed ==
    <<"T","r","a","n","s","f","e","r"," ","f","a","i","l","e","d",":"," ",
      "i","n","s","u","f","f","i","c","i","e","n","t"," ",
      "l","i","q","u","i","d","i","t","y">>
TxtSuccess == <<"S","u","c","c","e","s","s">>
TxtMessageQueued == StrMessage \o <<" ","q","u","e","u","e","d">>
TxtOk == <<"O","K">>

TransferMessages ==
    {TxtTransferSuccessful, TxtUpperSuccessful, TxtTransferFailed, TxtSuccess}
TextBodies == {TxtMessageQueued, TxtOk, <<>>}

\* ------------------------------------------------------ provider responses
\* GET /users/{id}: the party nested under "user" or at top level, with all
\* six string fields (valid) or not; or a body that is not a JSON object.
PaymentIdentifier(id) == "pay_" \o id

UserData(id) ==
    {[t |-> "dict", nested |-> n, valid |-> v, id |-> id] : n \in BOOLEAN, v \in BOOLEAN}
    \cup {[t |-> "none", nested |-> FALSE, valid |-> FALSE, id |-> id]}

UserNone(id) == [t |-> "none", nested |-> FALSE, valid |-> FALSE, id |-> id]

\* GET /recipient/{pid}: the recipient nested under "recipient" or at top
\* level; empty says that the object holding the recipient is {}.
RecipientData ==
    {[t |-> "dict", nested |-> n, empty |-> e] : n \in BOOLEAN, e \in BOOLEAN}
    \cup {[t |-> "none", nested |-> FALSE, empty |-> TRUE]}

RecipientNone == [t |-> "none", nested |-> FALSE, empty |-> TRUE]

\* POST /mint: an object, empty or not, or no body
MintData ==
    {[t |-> "dict", empty |-> e] : e \in BOOLEAN} \cup {[t |-> "none", empty |-> TRUE]}

MintNone == [t |-> "none", empty |-> TRUE]

\* POST /transfer/{id}: a JSON object with or without a message field, a text
\* (a JSON string, or a body that is not JSON), a JSON number, or no body.
TransferData ==
    {[t |-> "dict", hasmsg |-> TRUE, empty |-> FALSE, text |-> m, num |-> 0] :
        m \in TransferMessages}
    \cup {[t |-> "dict", hasmsg |-> FALSE, empty |-> e, text |-> <<>>, num |-> 0] :
        e \in BOOLEAN}
    \cup {[t |-> "str", hasmsg |-> FALSE, empty |-> FALSE, text |-> s, num |-> 0] :
        s \in TextBodies}
    \cup {[t |-> "num", hasmsg |-> FALSE, empty |-> FALSE, text |-> <<>>, num |-> n] :
        n \in {0, 1}}
    \cup {[t |-> "none", hasmsg |-> FALSE, empty |-> TRUE, text |-> <<>>, num |-> 0]}

TransferNone == [t |-> "none", hasmsg |-> FALSE, empty |-> TRUE, text |-> <<>>, num |-> 0]

\* bool(data) of a transfer response
TransferTruthy(d) ==
    CASE d.t = "dict" -> ~d.empty
      [] d.t = "str" -> d.text # <<>>
      [] d.t = "num" -> d.num # 0
      [] OTHER -> FALSE

\* 'message' in data: key of a dict, substring of a str, TypeError otherwise
MessageInRaises(d) == d.t = "num"
MessageIn(d) ==
    CASE d.t = "dict" -> d.hasmsg
      [] d.t = "str" -> Contains(d.text, StrMessage)
      [] OTHER -> FALSE

\* data['message'] raises TypeError on a str
MessageOfRaises(d) == d.t = "str"

\* 'successful' in str(data['message']).lower()
MessageSaysSuccessful(d) == Contains(Lower(d.text), StrSuccessful)

\* GET /{id}/balance: {"tokens": [...]}, {"balance": {"tokens": [...]}}, an
\* object with neither key, or a body that is not a JSON object.  A token is
\* a dict with a name and a balance, whose text Decimal() parses (ok) or
\* not, or an entry that is not a dict.
TokenNames == {"L ZAR Coin", "L USD Coin", "L EUR Coin"}
BalanceCentsValues == {-100, 0, 7, 4000, 5000, 6000}

RawBalances ==
    {[ok |-> TRUE, cents |-> c] : c \in BalanceCentsValues} \cup {[ok |-> FALSE, cents |-> 0]}

TokenEntries ==
    {[isdict |-> TRUE, name |-> n, balance |-> b] : n \in TokenNames, b \in RawBalances}
    \cup {[isdict |-> FALSE, name |-> "", balance |-> [ok |-> FALSE, cents |-> 0]]}

BoundedSeq(S, n) == UNION {[1..k -> S] : k \in 0..n}

BalanceData ==
    {[shape |-> s, tokens |-> ts] :
        s \in {"tokens", "nested"}, ts \in BoundedSeq(TokenEntries, MaxTokens)}
    \cup {[shape |-> "empty", tokens |-> <<>>], [shape |-> "none", tokens |-> <<>>]}

BalanceNone == [shape |-> "none", tokens |-> <<>>]

\* Decimal(str(bal_raw)), Decimal("0") when it raises
ParseDecimal(raw) == IF raw.ok THEN raw.cents ELSE 0

\* a scan that takes every token that is not the USD coin for the ZAR coin
RECURSIVE ScanTokensAnyName(_, _, _)
ScanTokensAnyName(tokens, zar, usd) ==
    IF tokens = <<>> THEN [zar |-> zar, usd |-> usd]
    ELSE LET t == Head(tokens)
             bal == ParseDecimal(t.balance)
         IN  IF ~t.isdict THEN ScanTokensAnyName(Tail(tokens), zar, usd)
             ELSE IF t.name = "L USD Coin" THEN ScanTokensAnyName(Tail(tokens), zar, bal)
             ELSE ScanTokensAnyName(Tail(tokens), bal, usd)

RECURSIVE ScanTokens(_, _, _)
ScanTokens(tokens, zar, usd) ==
    IF tokens = <<>> THEN [zar |-> zar, usd |-> usd]
    ELSE LET t == Head(tokens)
             bal == ParseDecimal(t.balance)
         IN  IF ~t.isdict THEN ScanTokens(Tail(tokens), zar, usd)
             ELSE IF t.name = "L ZAR Coin" THEN ScanTokens(Tail(tokens), bal, usd)
             ELSE IF t.name = "L USD Coin" THEN ScanTokens(Tail(tokens), zar, bal)
             ELSE ScanTokens(Tail(tokens), zar, usd)

\* RapydMoneyBalance.from_api
BalanceFromApi(src) ==
    LET inner == IF src.shape = "tokens" THEN src
                 ELSE IF src.shape = "nested" THEN [shape |-> "tokens", tokens |-> src.tokens]
                 ELSE [shape |-> "empty", tokens |-> <<>>]
        tokens == IF inner.shape = "tokens" THEN inner.tokens ELSE <<>>
    IN  ScanTokens(tokens, 0, 0)

\* ------------------------------------------------------------ client methods
\* Each returns [raised, error, value]: the exception raised, or the value.
Raised(e) == [raised |-> TRUE, error |-> e]
Returned(v) == [raised |-> FALSE, error |-> "", value |-> v]

\* the RapydMoneyUser the provider holds for id
User(id) == [id |-> id, payment_identifier |-> PaymentIdentifier(id)]
NoUser == [id |-> "", payment_identifier |-> ""]

\* RapydMoneyService.get_user
get_user(w) ==
    LET r == Request(w) IN
    IF r.raised THEN Raised(r.error)
    ELSE IF r.data.t = "dict"
         THEN IF r.data.valid THEN Returned(User(r.data.id))
              ELSE Raised("ValidationError")
         ELSE Raised("RapydMoneyAPIError")

\* a client that knows the bare tokens list only
get_balanceBareTokensOnly(w) ==
    LET r == Request(w) IN
    IF r.raised THEN Raised(r.error)
    ELSE LET data == r.data
             src == IF data.shape = "tokens" THEN data
                    ELSE [shape |-> "empty", tokens |-> <<>>]
         IN  Returned(BalanceFromApi(src))

\* RapydMoneyService.get_balance
get_balance(w) ==
    LET r == Request(w) IN
    IF r.raised THEN Raised(r.error)
    ELSE LET data == r.data
             src == IF data.shape = "nested"
                    THEN [shape |-> "tokens", tokens |-> data.tokens]
                    ELSE IF data.shape # "none" THEN data
                    ELSE [shape |-> "empty", tokens |-> <<>>]
         IN  Returned(BalanceFromApi(src))

\* RapydMoneyService.get_recipient; the value is bool(recipient)
get_recipient(w) ==
    LET r == Request(w) IN
    IF r.raised THEN Raised(r.error)
    ELSE Returned(r.data.t = "dict" /\ ~r.data.empty)

\* RapydMoneyService.mint; the value is bool(resp)
mint(w) ==
    LET r == Request(w) IN
    IF r.raised THEN Raised(r.error)
    ELSE Returned(r.data.t = "dict" /\ ~r.data.empty)

\* The test that do_transfer applies to data and the handler to resp:
\* data and 'message' in data and 'successful' in str(data['message']).lower()
SuccessTestRaises(d) ==
    TransferTruthy(d) /\ (MessageInRaises(d) \/ (MessageIn(d) /\ MessageOfRaises(d)))
SuccessTest(d) ==
    TransferTruthy(d) /\ MessageIn(d) /\ MessageSaysSuccessful(d)

\* RapydMoneyService.do_transfer: data when the test passes, False otherwise
do_transfer(w) ==
    LET r == Request(w) IN
    IF r.raised THEN Raised(r.error)
    ELSE IF SuccessTestRaises(r.data) THEN Raised("TypeError")
    ELSE IF SuccessTest(r.data) THEN Returned(r.data)
    ELSE Returned(TransferNone)

\* ------------------------------------------------------------------- state
VARIABLES
    pc,            \* where the HTTP invocation stands
    op,            \* the route invoked
    body,          \* app.current_request.json_body
    amount,        \* amount = amount_cents / 100.0
    first_user,    \* merchant_user (pay-user), sponsor_user (sponsor-user), existing_user (fund-user)
    student_user,  \* student_user
    calls,         \* the provider requests issued by this invocation, with what came back
    response,      \* what the HTTP caller receives
    log,           \* the lines printed by this invocation
    batch,         \* the SQS event: the record bodies of one batch
    idx,           \* position of the record being handled
    qpc,           \* where the batch handler stands
    data,          \* the working message of the record being handled
    dispatched,    \* positions whose handler branch was entered
    effects,       \* mails and provider calls of the batch, in order, with their outcome
    qlog           \* lines logged by the batch handler

httpVars == <<pc, op, body, amount, first_user, student_user, calls, response, log>>
queueVars == <<batch, idx, qpc, data, dispatched, effects, qlog>>
vars == <<pc, op, body, amount, first_user, student_user, calls, response, log,
          batch, idx, qpc, data, dispatched, effects, qlog>>

\* ---------------------------------------------------------------- responses
\* A JSON body the handler returns: result is "True", "False" or Absent, message a
\* text or Absent; null says that the handler returned None.
Absent == "<absent>"
JsonBody(result, message) == [null |-> FALSE, result |-> result, message |-> message]
NullBody == [null |-> TRUE, result |-> Absent, message |-> Absent]

NoResponse == [status |-> 0, fault |-> "", body |-> NullBody]
\* the handler returned b
Json(b) == [status |-> 200, fault |-> "", body |-> b]
\* the handler raised e: nothing it returned reaches the caller
Fault(e) == [status |-> 500, fault |-> e, body |-> NullBody]

InsufficientFunds == JsonBody("False", "Insufficient funds")
UserNotFound == JsonBody("False", "User not found")
CanPayTrue == JsonBody("True", Absent)
TransferSuccessful == JsonBody("True", "Sponsor user transfer successful")
TransferFailed == JsonBody("False", "Sponsor transfer failed")
InvalidRequest == JsonBody("False", "Sponsor transfer failed, invalid request")
UserCanPay == JsonBody(Absent, "User can pay")
UserCannotPay == JsonBody(Absent, "User cannot pay")

\* bool() of a pydantic model instance (RapydMoneyBalance, RapydMoneyUser)
ModelTruthy(m) == TRUE

InitHttp ==
    /\ pc = "idle"
    /\ op = ""
    /\ body = <<>>
    /\ amount = ZeroAmount
    /\ first_user = NoUser
    /\ student_user = NoUser
    /\ calls = <<>>
    /\ response = NoResponse
    /\ log = <<>>

\* --------------------------------------------------------------- /can-pay
ApiCanPay(b) ==
    /\ pc = "idle"
    /\ op' = "can-pay"
    /\ body' = b
    /\ IF ~Has(b, "amount_cents")
       THEN /\ amount' = amount
            /\ pc' = "done"
            /\ response' = Fault("TypeError")
       ELSE /\ amount' = Div100(b["amount_cents"])
            /\ IF Truthy(b, "studentId")
               THEN pc' = "can_pay_get_balance" /\ response' = response
               ELSE pc' = "done" /\ response' = Json(UserNotFound)
    /\ UNCHANGED <<first_user, student_user, calls, log, queueVars>>

CanPayDecision(balance, amt) ==
    IF ModelTruthy(balance)
    THEN IF DecimalLtFloat(balance.zar, amt) THEN Json(InsufficientFunds) ELSE Json(CanPayTrue)
    ELSE Json(NullBody)

CanPayGetBalance ==
    /\ pc = "can_pay_get_balance"
    /\ \E w \in Wire(BalanceData, BalanceNone) :
          LET r == get_balance(w) IN
          /\ calls' = Append(calls, [api |-> "get_balance", id |-> body["studentId"], wire |-> w])
          /\ response' = IF r.raised THEN Fault(r.error) ELSE CanPayDecision(r.value, amount)
    /\ pc' = "done"
    /\ UNCHANGED <<op, body, amount, first_user, student_user, log, queueVars>>

\* ------------------------------------------------ /pay-user, /sponsor-user
\* The two handlers have the same shape; o says which one runs.
FirstIdKey(o) == IF o = "pay-user" THEN "merchantId" ELSE "sponsorId"

\* trx_id = f"Idem_{idempotency_key}"; an absent key formats as None
TrxId(b) ==
    "Idem_" \o (IF Has(b, "idempotency_key") THEN b["idempotency_key"] ELSE "None")

\* a transfer that debits the party it should credit
TransferFromSwapped(o, first, student) == IF o = "pay-user" THEN first.id ELSE student.id

\* from_user_id of do_transfer
TransferFrom(o, first, student) == IF o = "pay-user" THEN student.id ELSE first.id

\* to_user_identifier of do_transfer
TransferTo(o, first, student) ==
    IF o = "pay-user" THEN first.payment_identifier ELSE student.payment_identifier

\* the payment identifier handed to get_recipient
RecipientArg(o, first, student) == student.payment_identifier

TransferBegin(o, b) ==
    /\ pc = "idle"
    /\ op' = o
    /\ body' = b
    /\ IF Truthy(b, FirstIdKey(o)) /\ Truthy(b, "studentId")
       THEN IF ~Has(b, "amount_cents")
            THEN /\ amount' = amount
                 /\ pc' = "done"
                 /\ response' = Fault("TypeError")
                 /\ log' = log
            ELSE /\ amount' = Div100(b["amount_cents"])
                 /\ pc' = "get_first_user"
                 /\ response' = response
                 /\ log' = log
       ELSE /\ amount' = amount
            /\ pc' = "done"
            /\ response' = Json(InvalidRequest)
            /\ log' = Append(log, "Invalid request: missing sponsorId or studentId")
    /\ UNCHANGED <<first_user, student_user, calls, queueVars>>

ApiPayUser(b) == TransferBegin("pay-user", b)

ApiSponsorUser(b) == TransferBegin("sponsor-user", b)

GetFirstUser ==
    /\ pc = "get_first_user"
    /\ LET id == body[FirstIdKey(op)] IN
       \E w \in Wire(UserData(id), UserNone(id)) :
          LET r == get_user(w) IN
          /\ calls' = Append(calls, [api |-> "get_user", id |-> id, wire |-> w])
          /\ IF r.raised
             THEN pc' = "done" /\ response' = Fault(r.error) /\ first_user' = first_user
             ELSE pc' = "get_student_user" /\ response' = response /\ first_user' = r.value
    /\ UNCHANGED <<op, body, amount, student_user, log, queueVars>>

GetStudentUser ==
    /\ pc = "get_student_user"
    /\ LET id == body["studentId"] IN
       \E w \in Wire(UserData(id), UserNone(id)) :
          LET r == get_user(w) IN
          /\ calls' = Append(calls, [api |-> "get_user", id |-> id, wire |-> w])
          /\ IF r.raised
             THEN /\ pc' = "done" /\ response' = Fault(r.error)
                  /\ student_user' = student_user /\ log' = log
             ELSE /\ student_user' = r.value
                  /\ IF ModelTruthy(first_user) /\ ModelTruthy(r.value)
                     THEN pc' = "get_recipient" /\ response' = response /\ log' = log
                     ELSE /\ pc' = "done" /\ response' = Json(TransferFailed)
                          /\ log' = Append(log, "Failed to transfer funds to student")
    /\ UNCHANGED <<op, body, amount, first_user, queueVars>>

GetRecipient ==
    /\ pc = "get_recipient"
    /\ \E w \in Wire(RecipientData, RecipientNone) :
          LET r == get_recipient(w) IN
          /\ calls' = Append(calls, [api |-> "get_recipient",
                                     id |-> RecipientArg(op, first_user, student_user),
                                     wire |-> w])
          /\ IF r.raised
             THEN pc' = "done" /\ response' = Fault(r.error) /\ log' = log
             ELSE IF r.value
                  THEN pc' = "do_transfer" /\ response' = response /\ log' = log
                  ELSE /\ pc' = "done" /\ response' = Json(TransferFailed)
                       /\ log' = Append(log, "Failed to transfer funds to student")
    /\ UNCHANGED <<op, body, amount, first_user, student_user, queueVars>>

DoTransfer ==
    /\ pc = "do_transfer"
    /\ \E w \in Wire(TransferData, TransferNone) :
          LET r == do_transfer(w)
              trx == [transactionAmount |-> amount,
                      transactionRecipient |-> TransferTo(op, first_user, student_user),
                      transactionNotes |-> TrxId(body)]
          IN
          /\ calls' = Append(calls, [api |-> "transfer",
                                     id |-> TransferFrom(op, first_user, student_user),
                                     json |-> trx, wire |-> w])
          /\ IF r.raised
             THEN response' = Fault(r.error) /\ log' = log
             ELSE IF SuccessTest(r.value)
                  THEN /\ response' = Json(TransferSuccessful)
                       /\ log' = Append(log, "Successful transfer")
                  ELSE /\ response' = Json(TransferFailed)
                       /\ log' = Append(log, "Failed to transfer funds to student")
    /\ pc' = "done"
    /\ UNCHANGED <<op, body, amount, first_user, student_user, queueVars>>

\* --------------------------------------------------------------- /fund-user
ApiFundUser(b) ==
    /\ pc = "idle"
    /\ op' = "fund-user"
    /\ body' = b
    /\ IF Truthy(b, "sponsorId")
       THEN IF ~Has(b, "amount_cents")
            THEN amount' = amount /\ pc' = "done" /\ response' = Fault("TypeError")
            ELSE /\ amount' = Div100(b["amount_cents"])
                 /\ pc' = "fund_get_user" /\ response' = response
       ELSE amount' = amount /\ pc' = "done" /\ response' = Json(UserCannotPay)
    /\ UNCHANGED <<first_user, student_user, calls, log, queueVars>>

FundGetUser ==
    /\ pc = "fund_get_user"
    /\ LET id == body["sponsorId"] IN
       \E w \in Wire(UserData(id), UserNone(id)) :
          LET r == get_user(w) IN
          /\ calls' = Append(calls, [api |-> "get_user", id |-> id, wire |-> w])
          /\ IF r.raised
             THEN /\ pc' = "done" /\ response' = Fault(r.error)
                  /\ first_user' = first_user /\ log' = log
             ELSE /\ first_user' = r.value
                  /\ IF ModelTruthy(r.value)
                     THEN pc' = "fund_mint" /\ response' = response /\ log' = log
                     ELSE /\ pc' = "done" /\ response' = Json(UserCanPay)
                          /\ log' = Append(log, "User not found")
    /\ UNCHANGED <<op, body, amount, student_user, queueVars>>

FundMint ==
    /\ pc = "fund_mint"
    /\ \E w \in Wire(MintData, MintNone) :
          LET r == mint(w)
              req == [transactionAmount |-> amount,
                      transactionRecipient |-> first_user.payment_identifier,
                      transactionNotes |-> <<"EFT deposit", amount, "to", body["sponsorId"]>>]
          IN
          /\ calls' = Append(calls, [api |-> "mint", id |-> "", json |-> req, wire |-> w])
          /\ IF r.raised
             THEN response' = Fault(r.error) /\ log' = log
             ELSE /\ response' = Json(UserCanPay)
                  /\ log' = Append(log, IF r.value THEN "Mint request successful"
                                                   ELSE "Mint request failed")
    /\ pc' = "done"
    /\ UNCHANGED <<op, body, amount, first_user, student_user, queueVars>>

\* The invocation is over; the next request meets a fresh one (no state is
\* kept between invocations).
Complete ==
    /\ pc = "done"
    /\ pc' = "idle"
    /\ op' = ""
    /\ body' = <<>>
    /\ amount' = ZeroAmount
    /\ first_user' = NoUser
    /\ student_user' = NoUser
    /\ calls' = <<>>
    /\ response' = NoResponse
    /\ log' = <<>>
    /\ UNCHANGED queueVars

\* ------------------------------------------------------------- JSON values
\* A decoded JSON value carries its Python type: [t, v].  A str whose text
\* is the JSON encoding of a value x is JStr(x); a Str holds any other text.
Val(t, s, n, m) == [t |-> t, s |-> s, n |-> n, m |-> m]
EmptyMap == [k \in {} |-> 0]
\* a map given as a record, as the function it is
Fn(r) == [k \in DOMAIN r |-> r[k]]

Str(x) == Val("str", x, 0, EmptyMap)
JStr(x) == Val("jstr", "", 0, "json" :> x)
Num(k) == Val("num", "", k, EmptyMap)
Null == Val("null", "", 0, EmptyMap)
Bool(b) == Val("bool", "", IF b THEN 1 ELSE 0, EmptyMap)
Dict(r) == Val("dict", "", 0, Fn(r))

IsDict(x) == x.t = "dict"
IsStr(x) == x.t \in {"str", "jstr"}
\* k in x, for a dict x
In(k, x) == k \in DOMAIN x.m

\* json.loads(s) of a str s
json_loads(x) ==
    IF x.t = "jstr" THEN [ok |-> TRUE, value |-> x.m["json"]] ELSE [ok |-> FALSE, value |-> x]

Without(d, k) == Dict([x \in (DOMAIN d.m) \ {k} |-> d.m[x]])
With(d, k, val) == Dict((k :> val) @@ d.m)

\* ------------------------------------------------------------ parsemessage
EventTypes == {"USER_REGISTERED", "STUDENT_MAGIC_LINK_REQUESTED"}
UserRoles == {"merchant", "student", "admin", "sponsor"}
\* the texts EmailStr accepts
ValidEmails == {"ann@example.com"}

\* a required str field
ReqStr(m, k) == In(k, m) /\ IsStr(m.m[k])
\* an Optional[str] field
OptStr(m, k) == In(k, m) => (IsStr(m.m[k]) \/ m.m[k].t = "null")
\* an Optional[bool] field; pydantic's lax mode also takes 0, 1 and the
\* texts it reads as a bool
LaxBoolTexts == {"true", "false", "yes", "no", "on", "off", "1", "0", "t", "f", "y", "n"}
OptBool(m, k) ==
    In(k, m) => \/ m.m[k].t \in {"bool", "null"}
                \/ (m.m[k].t = "num" /\ m.m[k].n \in {0, 1})
                \/ (m.m[k].t = "str" /\ m.m[k].s \in LaxBoolTexts)
\* an EmailStr field
ReqEmail(m, k) == In(k, m) /\ m.m[k].t = "str" /\ m.m[k].s \in ValidEmails

\* UserEnvelope
UserEnvelopeValid(u) ==
    /\ IsDict(u)
    /\ ReqStr(u, "id")
    /\ ReqEmail(u, "email")
    /\ In("role", u) => (u.m["role"].t = "null"
                         \/ (u.m["role"].t = "str" /\ u.m["role"].s \in UserRoles))
    /\ OptStr(u, "firstName")
    /\ OptStr(u, "lastName")
    /\ OptStr(u, "studentNumber")
    /\ OptBool(u, "is_active")
    /\ OptStr(u, "created_at")

\* Keys
KeysValid(k) == IsDict(k) /\ ReqStr(k, "Pk") /\ ReqStr(k, "Sk")

\* UserRegisteredMessage
UserRegisteredValid(m) ==
    /\ ReqStr(m, "timestamp")
    /\ In("user", m) /\ UserEnvelopeValid(m.m["user"])
    /\ In("keys", m) /\ KeysValid(m.m["keys"])
    /\ ReqStr(m, "table")
    /\ ReqStr(m, "source")

\* StudentMagicLinkRequestedMessage
MagicLinkValid(m) ==
    /\ ReqStr(m, "timestamp")
    /\ ReqEmail(m, "email")
    /\ ReqStr(m, "magicToken")
    /\ OptStr(m, "linkUrl")
    /\ OptStr(m, "source")

\* the registry filled by the two @sqs_registry.register decorators
Registry == [e \in EventTypes |->
                IF e = "USER_REGISTERED" THEN "UserRegistered" ELSE "StudentMagicLinkRequested"]

SchemaValid(cls, m) ==
    IF cls = "UserRegistered" THEN UserRegisteredValid(m) ELSE MagicLinkValid(m)

ParseFailed(e, d) == [ok |-> FALSE, error |-> e, cls |-> "", model |-> d]

\* a resolve that hands the payload to no schema
parseWithoutSchema(d) ==
    IF d.t \in {"num", "null", "bool"} THEN ParseFailed("TypeError", d)
    ELSE IF ~IsDict(d) \/ ~In("eventType", d) THEN ParseFailed("MissingDiscriminant", d)
    ELSE IF ~(d.m["eventType"].t = "str" /\ d.m["eventType"].s \in EventTypes)
         THEN ParseFailed("UnknownEventType", d)
    ELSE [ok |-> TRUE, error |-> "", cls |-> Registry[d.m["eventType"].s], model |-> d]

\* a resolve that validates the fields all messages share before it looks
\* the event type up
parseSchemaFirst(d) ==
    IF d.t \in {"num", "null", "bool"} THEN ParseFailed("TypeError", d)
    ELSE IF ~IsDict(d) \/ ~In("eventType", d) THEN ParseFailed("MissingDiscriminant", d)
    ELSE IF ~ReqStr(d, "timestamp") THEN ParseFailed("SchemaValidationError", d)
    ELSE IF ~(d.m["eventType"].t = "str" /\ d.m["eventType"].s \in EventTypes)
         THEN ParseFailed("UnknownEventType", d)
    ELSE LET cls == Registry[d.m["eventType"].s] IN
         IF SchemaValid(cls, d)
         THEN [ok |-> TRUE, error |-> "", cls |-> cls, model |-> d]
         ELSE ParseFailed("SchemaValidationError", d)

\* SqsModelRegistry.parse / parse_sqs_message
parse(d) ==
    IF d.t \in {"num", "null", "bool"} THEN ParseFailed("TypeError", d)
    ELSE IF ~IsDict(d) \/ ~In("eventType", d) THEN ParseFailed("MissingDiscriminant", d)
    ELSE IF ~(d.m["eventType"].t = "str" /\ d.m["eventType"].s \in EventTypes)
         THEN ParseFailed("UnknownEventType", d)
    ELSE LET cls == Registry[d.m["eventType"].s] IN
         IF SchemaValid(cls, d)
         THEN [ok |-> TRUE, error |-> "", cls |-> cls, model |-> d]
         ELSE ParseFailed("SchemaValidationError", d)

\* ---------------------------------------------------------- handle_my_queue
\* an unwrap that goes on for as long as there is a Message to unwrap
RECURSIVE UnwrapAll(_)
UnwrapAll(d) ==
    IF IsDict(d) /\ In("Message", d) /\ IsStr(d.m["Message"])
    THEN LET inner == json_loads(d.m["Message"]) IN
         IF inner.ok /\ IsDict(inner.value) /\ In("eventType", inner.value)
         THEN UnwrapAll(inner.value)
         ELSE d
    ELSE d

normalizeUnwrapsAll(body_str) ==
    LET outer == json_loads(body_str) IN
    IF ~outer.ok THEN [ok |-> FALSE, data |-> body_str]
    ELSE [ok |-> TRUE, data |-> UnwrapAll(outer.value)]

\* lines 225-237: decode the body, unwrap one "Message" level
normalize(body_str) ==
    LET outer == json_loads(body_str) IN
    IF ~outer.ok THEN [ok |-> FALSE, data |-> body_str]
    ELSE LET d == outer.value IN
         IF IsDict(d) /\ In("Message", d) /\ IsStr(d.m["Message"])
         THEN LET inner == json_loads(d.m["Message"]) IN
              IF inner.ok /\ IsDict(inner.value) /\ In("eventType", inner.value)
              THEN [ok |-> TRUE, data |-> inner.value]
              ELSE [ok |-> TRUE, data |-> d]
         ELSE [ok |-> TRUE, data |-> d]

\* the branch the if / elif / else of lines 247-320 takes
Route(p) ==
    IF p.model.m["eventType"].s = "USER_REGISTERED" THEN "user_registered"
    ELSE IF p.model.m["eventType"].s = "STUDENT_MAGIC_LINK_REQUESTED" THEN "magic_link"
    ELSE "unhandled"

\* where the for loop stands after record i of n: the next record, or the end
LoopNext(i, n) == [idx |-> i + 1, qpc |-> IF i + 1 > n THEN "batch_done" ELSE "record"]

\* a break where the continue stands: the rest of the batch is skipped
ContinueBreaks(i, n) == [idx |-> n + 1, qpc |-> "batch_done"]

\* the continue statements of lines 237 and 244
Continue(i, n) == LoopNext(i, n)

InitQueue ==
    /\ batch = <<>>
    /\ idx = 0
    /\ qpc = "idle"
    /\ data = Dict(EmptyMap)
    /\ dispatched = {}
    /\ effects = <<>>
    /\ qlog = <<>>

Init == InitHttp /\ InitQueue

\* the record bodies a batch is drawn from
MsgUser ==
    Dict([id |-> Str("u1"), email |-> Str("ann@example.com"), role |-> Str("student"),
          firstName |-> Str("Ann"), lastName |-> Str("Lee")])
MsgUserRegistered ==
    Dict([eventType |-> Str("USER_REGISTERED"), timestamp |-> Str("2025-08-08T14:43:25Z"),
          user |-> MsgUser,
          keys |-> Dict([Pk |-> Str("STUDENT#u1"), Sk |-> Str("USER")]),
          table |-> Str("kudupay"), source |-> Str("auth.registerUser")])
MsgMagicLink ==
    Dict([eventType |-> Str("STUDENT_MAGIC_LINK_REQUESTED"),
          timestamp |-> Str("2025-08-08T14:43:25Z"),
          email |-> Str("ann@example.com"), magicToken |-> Str("tok")])

QueueBodies ==
    { Str("not json"),
      JStr(MsgUserRegistered),
      JStr(MsgMagicLink),
      JStr(Without(MsgUserRegistered, "user")),
      JStr(Without(MsgMagicLink, "eventType")),
      JStr(With(MsgMagicLink, "eventType", Str("PAYMENT_COMPLETED"))),
      JStr(Dict([Type |-> Str("Notification"), Message |-> JStr(MsgMagicLink)])) }

Min(a, b) == IF a < b THEN a ELSE b

Batches == BoundedSeq(QueueBodies, Min(MaxBatch, BatchSize)) \ {<<>>}

\* what a mailer call does: True, False, or an exception
MailOutcomes == {"sent", "failed", "raised"}

\* POST /users and POST /activate-pay/{id}: any body
PlainData == {[t |-> "dict"], [t |-> "none"]}
PlainNone == [t |-> "none"]

\* the SQS event arrives
Deliver(b) ==
    /\ qpc = "idle"
    /\ batch' = b
    /\ idx' = 1
    /\ qpc' = "record"
    /\ data' = Dict(EmptyMap)
    /\ dispatched' = {}
    /\ effects' = <<>>
    /\ qlog' = <<>>
    /\ UNCHANGED httpVars

\* one pass of the loop body up to the handler branch: lines 221-247, 306, 319
HandleRecord ==
    /\ qpc = "record"
    /\ LET n == normalize(batch[idx])
           p == parse(n.data)
           go == Continue(idx, Len(batch))
           end == LoopNext(idx, Len(batch))
       IN
       IF ~n.ok
       THEN /\ qlog' = Append(qlog, [idx |-> idx, level |-> "error",
                                     text |-> "Failed to parse SQS record body as JSON"])
            /\ idx' = go.idx /\ qpc' = go.qpc
            /\ UNCHANGED <<data, dispatched>>
       ELSE IF ~p.ok
       THEN /\ qlog' = Append(qlog, [idx |-> idx, level |-> "error",
                                     text |-> "Failed to parse message with schema",
                                     exc |-> p.error])
            /\ idx' = go.idx /\ qpc' = go.qpc
            /\ data' = n.data
            /\ UNCHANGED dispatched
       ELSE IF Route(p) = "user_registered"
       THEN /\ data' = p.model
            /\ dispatched' = dispatched \cup {idx}
            /\ qpc' = "welcome_email"
            /\ UNCHANGED <<idx, qlog>>
       ELSE IF Route(p) = "magic_link"
       THEN /\ data' = p.model
            /\ dispatched' = dispatched \cup {idx}
            /\ qpc' = "magic_link_email"
            /\ UNCHANGED <<idx, qlog>>
       ELSE /\ qlog' = Append(qlog, [idx |-> idx, level |-> "warning",
                                     text |-> "Unhandled eventType"])
            /\ idx' = end.idx /\ qpc' = end.qpc
            /\ data' = p.model
            /\ UNCHANGED dispatched
    /\ UNCHANGED <<batch, effects, httpVars>>

\* a welcome email whose failure ends the handling of the record
SendWelcomeEmailOrGiveUp ==
    /\ qpc = "welcome_email"
    /\ LET end == LoopNext(idx, Len(batch)) IN
       \E o \in MailOutcomes :
          /\ effects' = Append(effects, [idx |-> idx, kind |-> "send_welcome_email",
                                         to |-> data.m["user"].m["email"].s,
                                         ok |-> o = "sent"])
          /\ qlog' = Append(qlog,
                IF o = "sent"
                THEN [idx |-> idx, level |-> "info", text |-> "Sent welcome email"]
                ELSE IF o = "failed"
                THEN [idx |-> idx, level |-> "error", text |-> "Failed to send welcome email"]
                ELSE [idx |-> idx, level |-> "error", text |-> "Error handling USER_REGISTERED"])
          /\ IF o = "sent"
             THEN idx' = idx /\ qpc' = "create_user"
             ELSE idx' = end.idx /\ qpc' = end.qpc
    /\ UNCHANGED <<batch, data, dispatched, httpVars>>

\* lines 248-271: the welcome email, in its own try
SendWelcomeEmail ==
    /\ qpc = "welcome_email"
    /\ \E o \in MailOutcomes :
          /\ effects' = Append(effects, [idx |-> idx, kind |-> "send_welcome_email",
                                         to |-> data.m["user"].m["email"].s,
                                         ok |-> o = "sent"])
          /\ qlog' = Append(qlog,
                IF o = "sent"
                THEN [idx |-> idx, level |-> "info", text |-> "Sent welcome email"]
                ELSE IF o = "failed"
                THEN [idx |-> idx, level |-> "error", text |-> "Failed to send welcome email"]
                ELSE [idx |-> idx, level |-> "error", text |-> "Error handling USER_REGISTERED"])
    /\ qpc' = "create_user"
    /\ UNCHANGED <<batch, idx, data, dispatched, httpVars>>

\* a creation whose failure is logged and followed by the activation all the same
CreateUserThenActivateAnyway ==
    /\ qpc = "create_user"
    /\ \E w \in Wire(PlainData, PlainNone) :
          LET r == Request(w) IN
          /\ effects' = Append(effects, [idx |-> idx, kind |-> "create_user",
                                         to |-> data.m["user"].m["id"].s,
                                         ok |-> ~r.raised])
          /\ qlog' = IF r.raised
                     THEN Append(qlog, [idx |-> idx, level |-> "error",
                        text |-> "Error handling USER_REGISTERED - RapydMoney Registration"])
                     ELSE qlog
    /\ qpc' = "activate_pay"
    /\ UNCHANGED <<batch, idx, data, dispatched, httpVars>>

\* lines 273-294: create_user, in the second try
CreateUser ==
    /\ qpc = "create_user"
    /\ LET end == LoopNext(idx, Len(batch)) IN
       \E w \in Wire(PlainData, PlainNone) :
          LET r == Request(w) IN
          /\ effects' = Append(effects, [idx |-> idx, kind |-> "create_user",
                                         to |-> data.m["user"].m["id"].s,
                                         ok |-> ~r.raised])
          /\ IF r.raised
             THEN /\ qlog' = Append(qlog, [idx |-> idx, level |-> "error",
                        text |-> "Error handling USER_REGISTERED - RapydMoney Registration"])
                  /\ idx' = end.idx /\ qpc' = end.qpc
             ELSE /\ qlog' = qlog
                  /\ idx' = idx /\ qpc' = "activate_pay"
    /\ UNCHANGED <<batch, data, dispatched, httpVars>>

\* an activation that, when it fails, takes the created user off the provider
ActivatePayOrRollBack ==
    /\ qpc = "activate_pay"
    /\ LET end == LoopNext(idx, Len(batch))
           id == data.m["user"].m["id"].s
       IN
       \E w \in Wire(PlainData, PlainNone) :
          LET r == Request(w)
              tried == Append(effects, [idx |-> idx, kind |-> "activate_pay",
                                        to |-> id, ok |-> ~r.raised])
          IN
          /\ effects' = IF r.raised
                        THEN Append(tried, [idx |-> idx, kind |-> "delete_user",
                                            to |-> id, ok |-> TRUE])
                        ELSE tried
          /\ qlog' = IF r.raised
                     THEN Append(qlog, [idx |-> idx, level |-> "error",
                        text |-> "Error handling USER_REGISTERED - RapydMoney Registration"])
                     ELSE qlog
          /\ idx' = end.idx /\ qpc' = end.qpc
    /\ UNCHANGED <<batch, data, dispatched, httpVars>>

\* lines 295-302: activate_pay, in the same try
ActivatePay ==
    /\ qpc = "activate_pay"
    /\ LET end == LoopNext(idx, Len(batch)) IN
       \E w \in Wire(PlainData, PlainNone) :
          LET r == Request(w) IN
          /\ effects' = Append(effects, [idx |-> idx, kind |-> "activate_pay",
                                         to |-> data.m["user"].m["id"].s,
                                         ok |-> ~r.raised])
          /\ qlog' = IF r.raised
                     THEN Append(qlog, [idx |-> idx, level |-> "error",
                        text |-> "Error handling USER_REGISTERED - RapydMoney Registration"])
                     ELSE qlog
          /\ idx' = end.idx /\ qpc' = end.qpc
    /\ UNCHANGED <<batch, data, dispatched, httpVars>>

\* lines 306-317: the magic-link email
SendMagicLinkEmail ==
    /\ qpc = "magic_link_email"
    /\ LET end == LoopNext(idx, Len(batch)) IN
       \E o \in MailOutcomes :
          /\ effects' = Append(effects, [idx |-> idx, kind |-> "send_magic_link_email",
                                         to |-> data.m["email"].s,
                                         ok |-> o = "sent"])
          /\ qlog' = Append(qlog,
                IF o = "sent"
                THEN [idx |-> idx, level |-> "info", text |-> "Sent magic link email"]
                ELSE IF o = "failed"
                THEN [idx |-> idx, level |-> "error", text |-> "Failed to send magic link email"]
                ELSE [idx |-> idx, level |-> "error",
                      text |-> "Error handling STUDENT_MAGIC_LINK_REQUESTED"])
          /\ idx' = end.idx /\ qpc' = end.qpc
    /\ UNCHANGED <<batch, data, dispatched, httpVars>>

\* handle_my_queue returned; the next invocation starts afresh
BatchComplete ==
    /\ qpc = "batch_done"
    /\ qpc' = "idle"
    /\ batch' = <<>>
    /\ idx' = 0
    /\ data' = Dict(EmptyMap)
    /\ dispatched' = {}
    /\ effects' = <<>>
    /\ qlog' = <<>>
    /\ UNCHANGED httpVars

QueueNext ==
    \/ \E b \in Batches : Deliver(b)
    \/ HandleRecord
    \/ SendWelcomeEmail
    \/ CreateUser
    \/ ActivatePay
    \/ SendMagicLinkEmail
    \/ BatchComplete

QueueSpec == Init /\ [][QueueNext]_vars

\* ------------------------------------------------- one record at a time
\* The messages a record may carry: the two valid ones, and ones that lack
\* or mistype a field, carry an unknown field, or name no known event.
WithUser(u) == With(MsgUserRegistered, "user", u)
Unknown(m) == With(m, "eventType", Str("PAYMENT_COMPLETED"))

UserRegisteredMessages ==
    { MsgUserRegistered,
      With(MsgUserRegistered, "extra", Str("x")),
      Without(MsgUserRegistered, "user"),
      Without(MsgUserRegistered, "keys"),
      Without(MsgUserRegistered, "timestamp"),
      With(MsgUserRegistered, "timestamp", Num(5)),
      With(MsgUserRegistered, "keys", Dict([Pk |-> Str("STUDENT#u1")])),
      With(Without(MsgUserRegistered, "table"), "extra", Str("x")),
      WithUser(Str("u1")),
      WithUser(Without(MsgUser, "id")),
      WithUser(With(MsgUser, "email", Str("not an email"))),
      WithUser(Without(Without(MsgUser, "role"), "firstName")),
      WithUser(With(MsgUser, "role", Null)),
      WithUser(With(MsgUser, "role", Str("teacher"))),
      WithUser(With(MsgUser, "firstName", Num(5))),
      WithUser(With(MsgUser, "is_active", Bool(TRUE))),
      WithUser(With(MsgUser, "is_active", Str("yes"))),
      WithUser(With(MsgUser, "is_active", Str("maybe"))),
      WithUser(With(MsgUser, "extra", Num(1))) }

MagicLinkMessages ==
    { MsgMagicLink,
      With(MsgMagicLink, "extra", Num(1)),
      With(MsgMagicLink, "linkUrl", Str("https://kudupay.example/verify")),
      With(MsgMagicLink, "linkUrl", Num(5)),
      Without(MsgMagicLink, "magicToken"),
      Without(MsgMagicLink, "email"),
      With(MsgMagicLink, "email", Num(5)),
      With(MsgMagicLink, "eventType", Str("USER_REGISTERED")) }

UnresolvedMessages ==
    { Dict(EmptyMap),
      Without(MsgMagicLink, "eventType"),
      Without(Without(MsgUserRegistered, "eventType"), "user"),
      Unknown(MsgMagicLink),
      Unknown(Without(MsgMagicLink, "email")),
      Unknown(With(MsgUserRegistered, "extra", Str("x"))),
      With(MsgMagicLink, "eventType", Num(5)),
      With(Without(MsgMagicLink, "timestamp"), "eventType", Null) }

Messages == UserRegisteredMessages \cup MagicLinkMessages \cup UnresolvedMessages

\* a relay's notification around a Message field
Wrap(x) == Dict([Type |-> Str("Notification"), Message |-> x])

WrappedBodies ==
    { JStr(Wrap(JStr(MsgMagicLink))),
      JStr(Wrap(JStr(MsgUserRegistered))),
      JStr(Wrap(JStr(Unknown(MsgMagicLink)))),
      JStr(Wrap(Str("hello"))),
      JStr(Wrap(Num(5))),
      JStr(Wrap(MsgMagicLink)),
      JStr(Wrap(JStr(Num(5)))),
      JStr(Wrap(JStr(Without(MsgMagicLink, "eventType")))),
      JStr(Wrap(JStr(Wrap(JStr(MsgMagicLink))))),
      JStr(Wrap(JStr(With(MsgMagicLink, "Message", JStr(MsgUserRegistered))))),
      JStr(With(MsgMagicLink, "Message", JStr(MsgUserRegistered))),
      JStr(With(MsgMagicLink, "Message", Str("hello"))) }

RecordBodies ==
    {JStr(m) : m \in Messages} \cup WrappedBodies
    \cup {Str("not json"), JStr(Num(5)), JStr(Null), JStr(Str("x"))}

\* handle_my_queue on events of one record
RecordNext ==
    \/ \E b \in RecordBodies : Deliver(<<b>>)
    \/ HandleRecord
    \/ SendWelcomeEmail
    \/ CreateUser
    \/ ActivatePay
    \/ SendMagicLinkEmail
    \/ BatchComplete

RecordSpec == Init /\ [][RecordNext]_vars

Next ==
    \/ \E b \in CanPayBodies : ApiCanPay(b)
    \/ CanPayGetBalance
    \/ \E b \in PayUserBodies : ApiPayUser(b)
    \/ \E b \in SponsorUserBodies : ApiSponsorUser(b)
    \/ GetFirstUser
    \/ GetStudentUser
    \/ GetRecipient
    \/ DoTransfer
    \/ \E b \in FundUserBodies : ApiFundUser(b)
    \/ FundGetUser
    \/ FundMint
    \/ Complete

Spec == Init /\ [][Next]_vars

\* =================================================================== claims
\* the last provider call of the invocation
LastCall == calls[Len(calls)]
\* the invocation ended and its last provider call was api
EndedAfter(api) == pc = "done" /\ calls # <<>> /\ LastCall.api = api

\* ----------------------------------------------------------------------- C1
\* a record body that decodes and that parse accepts
Valid(b) == normalize(b).ok /\ parse(normalize(b).data).ok

\* C1: per-message isolation.  Whatever happened to the records before it (a
\* body that is not JSON, a rejected message, a handler whose mail or provider
\* call raised), every valid record the loop has passed was dispatched to its
\* handler, and the batch handler ends only after the last record.
C1_PerMessageIsolation ==
    /\ \A j \in 1..Len(batch) :
          (Valid(batch[j]) /\ (j < idx \/ qpc = "batch_done")) => j \in dispatched
    /\ qpc = "batch_done" => idx = Len(batch) + 1

\* a batch of three has ended: the provider call of record 1 raised, record 2
\* was rejected, record 3 was dispatched
C1_Witness ==
    /\ qpc = "batch_done"
    /\ Len(batch) = 3
    /\ \E k \in 1..Len(qlog) :
          /\ qlog[k].idx = 1
          /\ qlog[k].text = "Error handling USER_REGISTERED - RapydMoney Registration"
    /\ ~Valid(batch[2])
    /\ 3 \in dispatched

\* ----------------------------------------------------------------------- C2
\* C2: when a provider call of an HTTP operation fails (transport error or
\* non-2xx status), the operation still ends with a JSON body that carries a
\* failure flag or message; nothing reaches the caller as a fault.
C2_ProviderErrorsCaught ==
    (pc = "done" /\ calls # <<>> /\ Request(LastCall.wire).raised)
        => (response.status = 200 /\ ~response.body.null)

\* ----------------------------------------------------------------------- C4
\* the provider's transfer response has a message field that contains
\* "successful", compared case-insensitively
SaysSuccessful(d) == d.t = "dict" /\ d.hasmsg /\ Contains(Lower(d.text), StrSuccessful)

\* C4: once pay-user or sponsor-user has got a response to its transfer, the
\* result is true exactly when that response has a message containing
\* "successful" (case-insensitive), and false for every other response.
C4_SuccessDetection ==
    (EndedAfter("transfer") /\ ~LastCall.wire.neterr)
        => response = IF SaysSuccessful(LastCall.wire.data)
                      THEN Json(TransferSuccessful)
                      ELSE Json(TransferFailed)

\* ----------------------------------------------------------------------- C5
\* C5: every transfer pay-user issues debits the student's id and credits the
\* merchant's payment identifier, every transfer sponsor-user issues debits
\* the sponsor's id and credits the student's payment identifier; the amount
\* is amount_cents / 100 and the reference is "Idem_" followed by the caller's
\* key, which no other key yields.
C5_TransferRequest ==
    \A i \in 1..Len(calls) :
        calls[i].api = "transfer" =>
            /\ op = "pay-user" =>
                  /\ calls[i].id = User(body["studentId"]).id
                  /\ calls[i].json.transactionRecipient
                        = User(body["merchantId"]).payment_identifier
            /\ op = "sponsor-user" =>
                  /\ calls[i].id = User(body["sponsorId"]).id
                  /\ calls[i].json.transactionRecipient
                        = User(body["studentId"]).payment_identifier
            /\ calls[i].json.transactionAmount.cents = body["amount_cents"]
            /\ Has(body, "idempotency_key") =>
                  /\ calls[i].json.transactionNotes = "Idem_" \o body["idempotency_key"]
                  /\ \A k \in IdempotencyKeys :
                        ("Idem_" \o k = calls[i].json.transactionNotes)
                            <=> (k = body["idempotency_key"])

\* pay-user has issued its transfer, with a key
C5_Witness ==
    /\ EndedAfter("transfer")
    /\ op = "pay-user"
    /\ Has(body, "idempotency_key")
    /\ body["amount_cents"] = 5000

\* ----------------------------------------------------------------------- C6
\* C6: when can-pay got a balance from the provider, the answer is
\* Insufficient funds exactly when the ZAR balance is strictly less than
\* amount_cents / 100, and result true otherwise, also when the two are equal.
C6_CanPayThreshold ==
    (EndedAfter("get_balance") /\ ~Request(LastCall.wire).raised)
        => response = IF get_balance(LastCall.wire).value.zar < body["amount_cents"]
                      THEN Json(InsufficientFunds)
                      ELSE Json(CanPayTrue)

\* ----------------------------------------------------------------------- C7
\* C7: can-pay on a body without studentId answers User not found and calls
\* the provider not at all, whatever amount_cents is, absent included.
C7_CanPayUserNotFound ==
    (pc = "done" /\ op = "can-pay" /\ ~Has(body, "studentId"))
        => (response = Json(UserNotFound) /\ calls = <<>>)

\* ----------------------------------------------------------------------- C8
\* the balance response holds no entry for the ZAR coin
NoZarRecord(d) ==
    \A i \in 1..Len(d.tokens) : ~(d.tokens[i].isdict /\ d.tokens[i].name = "L ZAR Coin")

CanPayWithoutBalanceRecord ==
    /\ EndedAfter("get_balance")
    /\ ~Request(LastCall.wire).raised
    /\ NoZarRecord(LastCall.wire.data)

\* C8 as claimed: without a balance record can-pay answers result false, for
\* every amount_cents.
C8_NoRecordAlwaysFails ==
    CanPayWithoutBalanceRecord
        => (response.status = 200 /\ ~response.body.null /\ response.body.result = "False")

\* C8 as amended: without a balance record the ZAR balance counts as zero:
\* Insufficient funds for every amount_cents > 0, result true for
\* amount_cents <= 0, and never an empty response.
C8_NoRecordIsZeroBalance ==
    CanPayWithoutBalanceRecord
        => response = IF body["amount_cents"] > 0
                      THEN Json(InsufficientFunds)
                      ELSE Json(CanPayTrue)

\* can-pay asked for 50.00 of a party whose tokens name no ZAR coin
C8_Witness ==
    /\ CanPayWithoutBalanceRecord
    /\ LastCall.wire.data.shape = "tokens"
    /\ Len(LastCall.wire.data.tokens) > 0
    /\ body["amount_cents"] = 5000
    /\ response = Json(InsufficientFunds)

\* ----------------------------------------------------------------------- C9
\* C9: what fund-user answers depends only on whether sponsorId was supplied:
\* User can pay when it was, also when the party is not found or the mint
\* fails; User cannot pay, without any provider call, when it was not.
C9_FundUserMessage ==
    (pc = "done" /\ op = "fund-user")
        => IF Truthy(body, "sponsorId")
           THEN response = Json(UserCanPay)
           ELSE response = Json(UserCannotPay) /\ calls = <<>>

\* ---------------------------------------------------------------------- C10
\* C10: pay-user and sponsor-user on a body where one of the two party ids
\* is absent or empty answer the invalid-request failure, whatever the other
\* fields are, and make no provider call.
C10_BothIdsRequired ==
    (op \in {"pay-user", "sponsor-user"}
        /\ ~(Has(body, FirstIdKey(op)) /\ body[FirstIdKey(op)] # ""
             /\ Has(body, "studentId") /\ body["studentId"] # ""))
        => /\ calls = <<>>
           /\ pc = "done"
           /\ response = Json(InvalidRequest)

\* pay-user ended on a body with neither merchantId nor amount_cents
C10_Witness ==
    /\ pc = "done"
    /\ op = "pay-user"
    /\ ~Has(body, "merchantId")
    /\ Has(body, "studentId")
    /\ ~Has(body, "amount_cents")
    /\ response = Json(InvalidRequest)

\* ---------------------------------------------------------------------- C11
\* the three ways resolve rejects a working message d
NoEventType(d) == ~IsDict(d) \/ ~In("eventType", d)
OutsideClosedSet(d) ==
    ~NoEventType(d) /\ ~(d.m["eventType"].t = "str" /\ d.m["eventType"].s \in EventTypes)
SchemaRejects(d) ==
    /\ ~NoEventType(d)
    /\ ~OutsideClosedSet(d)
    /\ IF d.m["eventType"].s = "USER_REGISTERED"
       THEN ~UserRegisteredValid(d)
       ELSE ~MagicLinkValid(d)

\* record j decodes and resolve fails on its working message
Rejected(j) ==
    /\ normalize(batch[j]).ok
    /\ LET d == normalize(batch[j]).data IN
       NoEventType(d) \/ OutsideClosedSet(d) \/ SchemaRejects(d)

\* the mails and provider calls made for record j
EffectsOf(j) == SelectSeq(effects, LAMBDA e : e.idx = j)

\* C11: for a record on which resolve fails (no eventType, an eventType outside
\* the closed set, or a payload its schema rejects) no handler runs: the record
\* is never dispatched and no mail and no provider call is made for it.
C11_NoEffectOnRejected ==
    \A j \in 1..Len(batch) :
        Rejected(j) => (j \notin dispatched /\ EffectsOf(j) = <<>>)

\* a batch has ended whose record 1 was rejected by its schema and whose
\* record 2 was handled, with its mail and its provider calls
C11_Witness ==
    /\ qpc = "batch_done"
    /\ Len(batch) >= 2
    /\ Rejected(1) /\ SchemaRejects(normalize(batch[1]).data)
    /\ EffectsOf(1) = <<>>
    /\ Len(EffectsOf(2)) = 3

\* ---------------------------------------------------------------------- C12
\* the loop has taken record j up to its handler, or past it
Handled(j) == j < idx \/ (j = idx /\ qpc # "record")

\* the working message of record j
WorkingMessage(j) == normalize(batch[j]).data

\* the failure of resolve logged for record j, "" when there is none
ResolveError(j) ==
    LET K == {k \in 1..Len(qlog) :
                /\ qlog[k].idx = j
                /\ qlog[k].text = "Failed to parse message with schema"}
    IN  IF K = {} THEN "" ELSE qlog[CHOOSE k \in K : TRUE].exc

\* the required fields of d's variant are there, with the right type
RequiredFieldsOk(d) ==
    IF d.m["eventType"].s = "USER_REGISTERED"
    THEN /\ ReqStr(d, "timestamp") /\ ReqStr(d, "table") /\ ReqStr(d, "source")
         /\ In("user", d) /\ IsDict(d.m["user"])
         /\ ReqStr(d.m["user"], "id") /\ ReqEmail(d.m["user"], "email")
         /\ In("keys", d) /\ IsDict(d.m["keys"])
         /\ ReqStr(d.m["keys"], "Pk") /\ ReqStr(d.m["keys"], "Sk")
    ELSE ReqStr(d, "timestamp") /\ ReqEmail(d, "email") /\ ReqStr(d, "magicToken")

\* the optional fields of d's variant that are there have a value of their type
OptionalFieldsOk(d) ==
    IF d.m["eventType"].s = "USER_REGISTERED"
    THEN LET u == d.m["user"] IN
         /\ In("role", u) => (u.m["role"].t = "null"
                              \/ (u.m["role"].t = "str" /\ u.m["role"].s \in UserRoles))
         /\ \A k \in {"firstName", "lastName", "studentNumber", "created_at"} : OptStr(u, k)
         /\ OptBool(u, "is_active")
    ELSE OptStr(d, "linkUrl") /\ OptStr(d, "source")

\* the handler steps of an event type
HandlerKinds(e) ==
    IF e = "USER_REGISTERED"
    THEN {"send_welcome_email", "create_user", "activate_pay"}
    ELSE {"send_magic_link_email"}

\* record j was resolved as e says: rejected with the failure e, or (e = "")
\* dispatched to the handler registered for its eventType
ResolvedAs(j, e) ==
    /\ ResolveError(j) = e
    /\ (j \in dispatched) <=> (e = "")
    /\ e = "" =>
          /\ \A k \in 1..Len(effects) :
                effects[k].idx = j
                    => effects[k].kind \in HandlerKinds(WorkingMessage(j).m["eventType"].s)
          /\ (j = idx /\ qpc # "batch_done")
                => data.m["eventType"] = WorkingMessage(j).m["eventType"]

\* a record that decoded to a map and that the loop has taken
ResolvedMap(j) == Handled(j) /\ normalize(batch[j]).ok /\ IsDict(WorkingMessage(j))

\* C12 as claimed: resolve fails with MissingDiscriminant without an eventType
\* key, else with UnknownEventType for a value outside the closed set, else
\* with SchemaValidationError when a required field is missing or wrong-typed,
\* and returns the envelope of the registered variant in every other case.
C12_ResolveOrderRequiredOnly ==
    \A j \in 1..Len(batch) :
        ResolvedMap(j) =>
            LET d == WorkingMessage(j) IN
            ResolvedAs(j, IF NoEventType(d) THEN "MissingDiscriminant"
                          ELSE IF OutsideClosedSet(d) THEN "UnknownEventType"
                          ELSE IF ~RequiredFieldsOk(d) THEN "SchemaValidationError"
                          ELSE "")

\* C12 as amended: as above, but SchemaValidationError also when an optional
\* field is there with a value its type does not take (a role outside the
\* four roles, a number for a name).  Only the fields a schema names are
\* looked at, so a field no schema names changes nothing.
C12_ResolveOrder ==
    \A j \in 1..Len(batch) :
        ResolvedMap(j) =>
            LET d == WorkingMessage(j) IN
            ResolvedAs(j, IF NoEventType(d) THEN "MissingDiscriminant"
                          ELSE IF OutsideClosedSet(d) THEN "UnknownEventType"
                          ELSE IF ~(RequiredFieldsOk(d) /\ OptionalFieldsOk(d))
                               THEN "SchemaValidationError"
                          ELSE "")

\* a message of an unknown type that also lacks a field was rejected as
\* UnknownEventType
C12_Witness ==
    /\ qpc = "batch_done"
    /\ batch = <<JStr(Unknown(Without(MsgMagicLink, "email")))>>
    /\ ResolveError(1) = "UnknownEventType"

\* ---------------------------------------------------------------------- C13
\* the body of a record is valid JSON, and what it decodes to
IsJson(b) == b.t = "jstr"
Decoded(b) == b.m["json"]

\* the outer value is a map with a string field Message that decodes as JSON
\* to a map containing eventType
HasInnerMessage(outer) ==
    /\ outer.t = "dict"
    /\ "Message" \in DOMAIN outer.m
    /\ IsJson(outer.m["Message"])
    /\ Decoded(outer.m["Message"]).t = "dict"
    /\ "eventType" \in DOMAIN Decoded(outer.m["Message"]).m

\* the record the loop took last
LastHandled == IF qpc \in {"record", "batch_done"} THEN idx - 1 ELSE idx

\* C13: the working message of a record whose body is valid JSON is the
\* decoded Message when the outer value is a map with a string Message that
\* decodes to a map containing eventType, and the outer value unchanged in
\* every other case; what is inside the inner object is left as it is.  A
\* record whose body is not valid JSON is logged and dropped: no handler runs.
C13_NormalizeOneLevel ==
    \A j \in 1..Len(batch) :
        /\ (j = LastHandled /\ IsJson(batch[j])) =>
              data = IF HasInnerMessage(Decoded(batch[j]))
                     THEN Decoded(Decoded(batch[j]).m["Message"])
                     ELSE Decoded(batch[j])
        /\ (Handled(j) /\ ~IsJson(batch[j])) =>
              /\ j \notin dispatched
              /\ \A k \in 1..Len(effects) : effects[k].idx # j
              /\ \E k \in 1..Len(qlog) :
                    /\ qlog[k].idx = j
                    /\ qlog[k].text = "Failed to parse SQS record body as JSON"

\* a notification was unwrapped to a magic-link message that itself carries a
\* Message holding a registration: the magic-link handler took it as it is
C13_Witness ==
    /\ qpc = "magic_link_email"
    /\ batch = <<JStr(Wrap(JStr(With(MsgMagicLink, "Message", JStr(MsgUserRegistered)))))>>
    /\ data = With(MsgMagicLink, "Message", JStr(MsgUserRegistered))

\* ---------------------------------------------------------------------- C14
\* the welcome email of record j was tried and failed: send returned false
\* or raised
WelcomeEmailFailed(j) ==
    \E k \in 1..Len(effects) :
        effects[k].idx = j /\ effects[k].kind = "send_welcome_email" /\ ~effects[k].ok

\* the loop is past the welcome email and the create-user step of record j
PastCreateUser(j) == j < idx \/ (j = idx /\ qpc \in {"activate_pay", "batch_done"})

\* C14: when the welcome email of a registration fails, the failure is logged
\* as an error, and create-user is still attempted for that record.
C14_EmailFailureDoesNotBlock ==
    \A j \in 1..Len(batch) :
        WelcomeEmailFailed(j) =>
            /\ \E k \in 1..Len(qlog) :
                  /\ qlog[k].idx = j
                  /\ qlog[k].level = "error"
                  /\ qlog[k].text \in {"Failed to send welcome email",
                                       "Error handling USER_REGISTERED"}
            /\ (j = idx => qpc \in {"create_user", "activate_pay"})
            /\ PastCreateUser(j) =>
                  \E k \in 1..Len(effects) :
                      effects[k].idx = j /\ effects[k].kind = "create_user"

\* the mailer raised on a registration, and the user was then created and
\* activated on the provider
C14_Witness ==
    /\ qpc = "batch_done"
    /\ WelcomeEmailFailed(1)
    /\ \E k \in 1..Len(qlog) : qlog[k].idx = 1 /\ qlog[k].text = "Error handling USER_REGISTERED"
    /\ \E k \in 1..Len(effects) :
          effects[k].idx = 1 /\ effects[k].kind = "activate_pay" /\ effects[k].ok

\* ---------------------------------------------------------------------- C15
\* the provider calls made for record j, in order
ProviderCallsOf(j) ==
    SelectSeq(effects, LAMBDA e : e.idx = j /\ e.kind \notin {"send_welcome_email",
                                                             "send_magic_link_email"})

\* C15: the provider calls of a registration are create-user and then
\* activate-pay, each at most once and nothing else; a call that fails is
\* logged and is the last call made for the record: nothing undoes what the
\* other sub-step did.
C15_NoRollback ==
    \A j \in 1..Len(batch) :
        LET c == ProviderCallsOf(j) IN
        /\ Len(c) <= 2
        /\ Len(c) >= 1 => c[1].kind = "create_user"
        /\ Len(c) = 2 => c[2].kind = "activate_pay"
        /\ \A k \in 1..Len(c) :
              ~c[k].ok =>
                  /\ k = Len(c)
                  /\ \E l \in 1..Len(qlog) :
                        /\ qlog[l].idx = j
                        /\ qlog[l].level = "error"
                        /\ qlog[l].text
                              = "Error handling USER_REGISTERED - RapydMoney Registration"

\* the batch has ended with the user of record 1 created on the provider and
\* not activated
C15_Witness ==
    /\ qpc = "batch_done"
    /\ Len(ProviderCallsOf(1)) = 2
    /\ ProviderCallsOf(1)[1].kind = "create_user" /\ ProviderCallsOf(1)[1].ok
    /\ ProviderCallsOf(1)[2].kind = "activate_pay" /\ ~ProviderCallsOf(1)[2].ok

\* ---------------------------------------------------------------------- C16
\* C16: every provider call of an HTTP operation is one HTTP request.  A
\* transport failure fails it with the network error (status_code -1, message
\* "Network error"), a non-2xx status with the API error carrying that status
\* code, and any other answer does not fail it; a call that failed is not
\* issued again: it is the last call of the invocation, which ends with it.
C16_ErrorClassification ==
    \A i \in 1..Len(calls) :
        LET w == calls[i].wire
            r == Request(w)
        IN
        /\ r.sent = 1
        /\ w.neterr =>
              r.raised /\ r.error = "RapydMoneyAPIError"
                       /\ r.status_code = -1 /\ r.message = "Network error"
        /\ (~w.neterr /\ w.status \notin 200..299) =>
              r.raised /\ r.error = "RapydMoneyAPIError"
                       /\ r.status_code = w.status /\ r.message = "API Error"
        /\ (~w.neterr /\ w.status \in 200..299) => ~r.raised
        /\ r.raised =>
              /\ i = Len(calls)
              /\ pc = "done"
              /\ response = Fault("RapydMoneyAPIError")

\* sponsor-user looked three parties up and its transfer met a transport failure
C16_Witness ==
    /\ EndedAfter("transfer")
    /\ op = "sponsor-user"
    /\ Len(calls) = 4
    /\ LastCall.wire.neterr
    /\ response = Fault("RapydMoneyAPIError")

\* ---------------------------------------------------------------------- C17
\* the amount a token list holds for the coin called name: that of the last
\* entry of that name (the text that is no decimal counts as 0), and 0 when
\* no entry has that name
Named(tokens, name) ==
    {i \in 1..Len(tokens) : tokens[i].isdict /\ tokens[i].name = name}
AmountOf(tokens, name) ==
    IF Named(tokens, name) = {} THEN 0
    ELSE LET last == CHOOSE i \in Named(tokens, name) :
                        \A k \in Named(tokens, name) : k <= i
         IN  IF tokens[last].balance.ok THEN tokens[last].balance.cents ELSE 0

\* the same response in its other shape
OtherShape(w) ==
    [w EXCEPT !.data.shape = IF @ = "tokens" THEN "nested"
                             ELSE IF @ = "nested" THEN "tokens" ELSE @]

\* C17: for every balance response the provider gave, bare or nested, zar is
\* the amount of the entry named "L ZAR Coin" and usd that of "L USD Coin",
\* entries of other names count for nothing and a missing token gives zero;
\* the other shape of the same response gives the same balance, and the
\* answer of can-pay is the one that balance gives.
C17_BalanceNormalization ==
    \A i \in 1..Len(calls) :
        (calls[i].api = "get_balance" /\ ~Request(calls[i].wire).raised) =>
            LET w == calls[i].wire
                expected == [zar |-> AmountOf(w.data.tokens, "L ZAR Coin"),
                             usd |-> AmountOf(w.data.tokens, "L USD Coin")]
            IN
            /\ get_balance(w).value = expected
            /\ get_balance(OtherShape(w)).value = expected
            /\ pc = "done" =>
                  response = IF DecimalLtFloat(expected.zar, amount)
                             THEN Json(InsufficientFunds)
                             ELSE Json(CanPayTrue)

\* a nested response that names another coin before the ZAR coin: 40.00 does
\* not cover 50.00
C17_Witness ==
    /\ EndedAfter("get_balance")
    /\ LastCall.wire.data.shape = "nested"
    /\ Len(LastCall.wire.data.tokens) = 2
    /\ LastCall.wire.data.tokens[1].name = "L EUR Coin"
    /\ LastCall.wire.data.tokens[1].balance = [ok |-> TRUE, cents |-> 6000]
    /\ LastCall.wire.data.tokens[2].name = "L ZAR Coin"
    /\ LastCall.wire.data.tokens[2].balance = [ok |-> TRUE, cents |-> 4000]
    /\ body["amount_cents"] = 5000
    /\ response = Json(InsufficientFunds)

\* ---------------------------------------------------------------------- C18
\* C18: every Balance get_balance returned holds two amounts that are not
\* negative, whatever the token entries of the response say.
C18_BalanceNonNegative ==
    \A i \in 1..Len(calls) :
        (calls[i].api = "get_balance" /\ ~get_balance(calls[i].wire).raised) =>
            /\ get_balance(calls[i].wire).value.zar >= 0
            /\ get_balance(calls[i].wire).value.usd >= 0

\* ---------------------------------------------------------------------- C19
\* C19: every transfer request pay-user or sponsor-user has sent carries an
\* amount above zero, whatever amount_cents the caller gave.
C19_TransferAmountPositive ==
    \A i \in 1..Len(calls) :
        calls[i].api = "transfer" =>
            \/ calls[i].json.transactionAmount.cents > 0
            \/ (calls[i].json.transactionAmount.cents = 0
                  /\ calls[i].json.transactionAmount.err > 0)

\* ---------------------------------------------------------------------- C20
\* call i of the invocation is a lookup that resolved: it returned a party,
\* or a recipient that is not empty
Resolved(i) ==
    CASE calls[i].api = "get_user" -> ~get_user(calls[i].wire).raised
      [] calls[i].api = "get_recipient" ->
            ~get_recipient(calls[i].wire).raised /\ get_recipient(calls[i].wire).value
      [] OTHER -> FALSE

\* C20: pay-user and sponsor-user issue their transfer as the fourth call,
\* after the lookup of the first party, of the second party and of the
\* recipient, in that order, each of which resolved; when a lookup does not
\* resolve the operation ends there with the TransferFailed answer and no
\* transfer is issued.
C20_TransferGuarded ==
    op \in {"pay-user", "sponsor-user"} =>
        /\ \A i \in 1..Len(calls) :
              /\ calls[i].api = CASE i = 1 -> "get_user"
                                  [] i = 2 -> "get_user"
                                  [] i = 3 -> "get_recipient"
                                  [] OTHER -> "transfer"
              /\ i <= 4
              /\ i = 1 => calls[i].id = body[FirstIdKey(op)]
              /\ i = 2 => calls[i].id = body["studentId"]
              /\ calls[i].api = "transfer" => \A k \in 1..(i - 1) : Resolved(k)
        /\ \A i \in 1..Len(calls) :
              (calls[i].api # "transfer" /\ ~Resolved(i)) =>
                  /\ i = Len(calls)
                  /\ pc = "done"
                  /\ response = Json(TransferFailed)

\* ---------------------------------------------------------------------- C21
\* the payment identifier the transfer of operation o is to credit
CreditedParty(o) ==
    IF o = "pay-user" THEN User(body["merchantId"]).payment_identifier
    ELSE User(body["studentId"]).payment_identifier

\* C21: in every pay-user and sponsor-user execution that issues a transfer,
\* the payment identifier handed to the recipient lookup before it is the one
\* the transfer credits: the merchant's in pay-user, the student's in
\* sponsor-user.
C21_RecipientIsTransferTarget ==
    \A i \in 1..Len(calls) :
        calls[i].api = "transfer" =>
            /\ calls[i].json.transactionRecipient = CreditedParty(op)
            /\ \E k \in 1..(i - 1) :
                  /\ calls[k].api = "get_recipient"
                  /\ calls[k].id = calls[i].json.transactionRecipient

\* ---------------------------------------------------------------------- C22
\* the steps taken for record j, in order
StepsOf(j) == [k \in 1..Len(EffectsOf(j)) |-> EffectsOf(j)[k].kind]

ProvisioningSteps == <<"send_welcome_email", "create_user", "activate_pay">>

\* C22: the steps taken for a registration are the first ones of: welcome
\* email, create-user, activate-pay, in that order and each at most once;
\* activate-pay is there only after a create-user that returned without
\* error, and a record handled to its end whose create-user succeeded has
\* had its activate-pay.
C22_ProvisioningOrder ==
    \A j \in 1..Len(batch) :
        (j \in dispatched /\ WorkingMessage(j).m["eventType"].s = "USER_REGISTERED") =>
            LET e == EffectsOf(j) IN
            /\ Len(e) <= 3
            /\ StepsOf(j) = SubSeq(ProvisioningSteps, 1, Len(e))
            /\ Len(e) = 3 => e[2].ok
            /\ j < idx => (Len(e) >= 2 /\ (e[2].ok <=> Len(e) = 3))

\* the loop is past a registration whose three steps were taken, the mail
\* having failed and the creation and the activation having succeeded
C22_Witness ==
    /\ Len(batch) >= 2
    /\ idx = 2
    /\ StepsOf(1) = ProvisioningSteps
    /\ ~EffectsOf(1)[1].ok /\ EffectsOf(1)[2].ok /\ EffectsOf(1)[3].ok

====
